---- MODULE Spec2Model ----
(***************************************************************************)
(* argos-sdk: _UiComponent (component factory, attachment manager,         *)
(* lifecycle controller), its leaf variants DomContentComponent and        *)
(* Control, and the DOM / dijit operations they call; Pane.show; and the   *)
(* ErrorManager's stored error log.                                        *)
(***************************************************************************)
EXTENDS Integers, Sequences, FiniteSets, TLC

\* ------------------------------------------------------------------ bounds
\* calls of _startupChildComponent / _destroyChildComponent per instance
MaxCalls == 2
\* nodes Control.render may create in one behaviour
MaxRender == 2
\* numeric insertion positions are 0..MaxPos
MaxPos == 2
\* error items in the log loaded from localStorage
MaxLoaded == 12
\* calls of addError in one behaviour
MaxAdded == 6

\* ---------------------------------------------------------- configuration
\* ErrorManager.errorCacheSizeMax
errorCacheSizeMax == 10

\* --------------------------------------------------------------- encodings
\* a null / undefined node reference (domNode: null)
Null == 0
\* an absent position argument (definition.position undefined)
Undefined == -1

\* the component that attaches ("this") and the instances it attaches
Inst == {"p", "a", "b", "c"}
Children == {"a", "b", "c"}

\* the node each instance is constructed around, the parent's inner
\* container node, and the nodes render() creates later
StaticNode(i) == CASE i = "p" -> 1 [] i = "a" -> 2 [] i = "b" -> 3 [] i = "c" -> 4
InnerNode == Cardinality(Inst) + 1
Nodes == 1 .. (InnerNode + MaxRender)

Positions == {Undefined} \cup (0 .. MaxPos)

VARIABLES
    kind,            \* declared class of each instance: "none" (not instantiated),
                     \* "dom" (DomContentComponent), "control" (Control),
                     \* "widget" (_WidgetBase), "container" (_WidgetBase + _Container)
    domNode,         \* instance.domNode
    containerNode,   \* instance.containerNode
    started,         \* widget._started
    beingDestroyed,  \* widget._beingDestroyed (set together with _destroyed)
    childNodes,      \* the DOM: node -> its ordered child nodes
    element,         \* the DOM: what each node is (tag, attributes, parsed content)
    created,         \* number of nodes created by render() so far
    source,          \* instance._componentSource: the definition it was made from
    startCalls,      \* calls of _startupChildComponent(instance)
    startupCalls,    \* invocations of instance.startup()
    stopCalls,       \* calls of _destroyChildComponent(instance)
    destroyCalls,    \* invocations of instance.destroy()
    appliedCalls,    \* invocations of control._applyAttributes()
    last,            \* the most recent call: operation, receiver, argument, raised?
    positionOf,      \* definition.position of each instance's definition
    attachOrder,     \* the instances attached so far, in call order
    phase,           \* where the owner's lifecycle sweep has taken each instance
    errors,          \* ErrorManager: the stored error items; the k-th added item is k,
                     \* the items of a loaded log of n items are -n .. -1
    added            \* ErrorManager: calls of addError so far

domVars == <<kind, source, domNode, containerNode, childNodes, element, created>>
lifeVars == <<started, beingDestroyed>>
countVars == <<startCalls, startupCalls, stopCalls, destroyCalls, appliedCalls>>
logVars == <<errors, added>>
scenarioVars == <<positionOf, attachOrder, phase, logVars>>
vars == <<domVars, lifeVars, countVars, last, scenarioVars>>

\* ------------------------------------------------------------ definitions
\* a component definition: type present or not, the tri-state domOnly, tag
\* ("" when unset), content ("" when unset, a markup string, or a function
\* producing markup), attrs (unset, {} or {"data-x": "1"})
Definitions ==
    [type : BOOLEAN,
     domOnly : {"unset", "true", "false"},
     tag : {"", "div", "ul"},
     content : {"", "static", "function"},
     attrs : {"unset", "empty", "some"}]

Def(type, domOnly, tag, content, attrs) ==
    [type |-> type, domOnly |-> domOnly, tag |-> tag, content |-> content, attrs |-> attrs]
NoDef == Def(FALSE, "unset", "", "", "unset")

\* what a node is: its tag, its attributes, the content it was parsed from
Element(tag, attrs, content) == [tag |-> tag, attrs |-> attrs, content |-> content]
NoElement == Element("", "", "")


\* isInstanceOf(_WidgetBase), isInstanceOf(_Container)
IsWidget(i) == kind[i] \in {"widget", "container"}
IsContainer(i) == kind[i] = "container"

\* ------------------------------------------------------------------- DOM
Range(s) == {s[k] : k \in DOMAIN s}

\* node.parentNode in the DOM cn
ParentIn(cn, n) ==
    IF \E m \in Nodes : n \in Range(cn[m])
    THEN CHOOSE m \in Nodes : n \in Range(cn[m])
    ELSE Null

parentNode(n) == ParentIn(childNodes, n)

\* the record of a call: what was called on what, whether it raised, and the
\* argument's node and that node's parent as the call found them
Call(op, self, inst, threw) ==
    [op |-> op, self |-> self, inst |-> inst, threw |-> threw, def |-> NoDef,
     node |-> IF inst \in Inst THEN domNode[inst] ELSE Null,
     parent |-> IF inst \in Inst /\ domNode[inst] # Null THEN parentNode(domNode[inst]) ELSE Null]

\* node.parentNode.removeChild(node)
removeChild(cn, n) == [m \in Nodes |-> SelectSeq(cn[m], LAMBDA x : x # n)]

\* n and its ancestors in cn
RECURSIVE UpFrom(_, _, _)
UpFrom(cn, n, k) ==
    IF n = Null \/ k = 0 THEN {}
    ELSE {n} \cup UpFrom(cn, ParentIn(cn, n), k - 1)

Ok(cn) == [threw |-> FALSE, cn |-> cn]
Threw(cn) == [threw |-> TRUE, cn |-> cn]

IndexOf(s, x) == CHOOSE k \in DOMAIN s : s[k] = x

InsertAt(s, k, x) == SubSeq(s, 1, k - 1) \o <<x>> \o SubSeq(s, k, Len(s))

\* ref.appendChild(node): a null node is a TypeError, a node that contains
\* ref a HierarchyRequestError; the node leaves its old parent first
appendChild(cn, ref, node) ==
    IF node = Null \/ node \in UpFrom(cn, ref, Cardinality(Nodes)) THEN Threw(cn)
    ELSE Ok([removeChild(cn, node) EXCEPT ![ref] = Append(@, node)])

\* parent.insertBefore(node, refChild); refChild = Null appends
insertBefore(cn, parent, node, refChild) ==
    IF node = Null \/ node \in UpFrom(cn, parent, Cardinality(Nodes)) THEN Threw(cn)
    ELSE IF refChild = Null THEN appendChild(cn, parent, node)
    ELSE IF node = refChild THEN Ok(cn)
    ELSE LET c1 == removeChild(cn, node)
         IN Ok([c1 EXCEPT ![parent] = InsertAt(@, IndexOf(@, refChild), node)])

\* dojo/dom-construct _insertBefore(node, ref)
domInsertBefore(cn, node, ref) ==
    IF ParentIn(cn, ref) # Null THEN insertBefore(cn, ParentIn(cn, ref), node, ref)
    ELSE Ok(cn)

\* dojo/dom-construct _insertAfter(node, ref)
domInsertAfter(cn, node, ref) ==
    LET parent == ParentIn(cn, ref)
        sibs == cn[parent]
    IN IF parent = Null THEN Ok(cn)
       ELSE IF sibs[Len(sibs)] = ref THEN appendChild(cn, parent, node)
       ELSE insertBefore(cn, parent, node, sibs[IndexOf(sibs, ref) + 1])

\* dojo/dom-construct place(node, refNode, position) for a numeric or an
\* absent position; a null refNode is a TypeError (refNode.childNodes)
place(cn, node, refNode, position) ==
    IF refNode = Null THEN Threw(cn)
    ELSE IF position # Undefined
    THEN IF Len(cn[refNode]) = 0 \/ Len(cn[refNode]) <= position
         THEN appendChild(cn, refNode, node)
         ELSE domInsertBefore(cn, node, cn[refNode][(IF position < 0 THEN 0 ELSE position) + 1])
    ELSE appendChild(cn, refNode, node)

\* dijit/registry findWidgets(root): the widgets' nodes below root, in
\* document order, not descending into a widget's own node
IsWidgetNode(n) == \E i \in Inst : IsWidget(i) /\ domNode[i] = n

RECURSIVE FindWidgets(_, _, _)
RECURSIVE FindIn(_, _, _)
FindIn(cn, s, k) ==
    IF s = <<>> THEN <<>>
    ELSE FindWidgets(cn, Head(s), k) \o FindIn(cn, Tail(s), k)
FindWidgets(cn, n, k) ==
    IF IsWidgetNode(n) THEN <<n>>
    ELSE IF k = 0 THEN <<>>
    ELSE FindIn(cn, cn[n], k - 1)

\* widget.getChildren()
getChildren(cn, i) ==
    IF containerNode[i] = Null THEN <<>>
    ELSE FindIn(cn, cn[containerNode[i]], Cardinality(Nodes))

\* ------------------------------------------------- dijit widget operations
\* dijit/_Container addChild(widget, insertIndex): a truthy index within the
\* current children places after children[insertIndex - 1], anything else
\* goes through place(); a started container starts a child not yet started
addChild(cn, self, widget, insertIndex) ==
    LET children == getChildren(cn, self)
        placed == IF insertIndex # Undefined /\ insertIndex # 0 /\ Len(children) >= insertIndex
                  THEN domInsertAfter(cn, domNode[widget], children[insertIndex])
                  ELSE place(cn, domNode[widget], containerNode[self], insertIndex)
    IN [threw |-> placed.threw, cn |-> placed.cn,
        startup |-> ~placed.threw /\ started[self] /\ ~started[widget]]

\* dijit/_Container removeChild(widget)
containerRemoveChild(cn, widget) ==
    IF domNode[widget] # Null /\ ParentIn(cn, domNode[widget]) # Null
    THEN removeChild(cn, domNode[widget])
    ELSE cn

\* dijit/_WidgetBase placeAt(reference, position) with a node as reference
placeAt(cn, widget, reference, position) == place(cn, domNode[widget], reference, position)

\* the instances whose startup() runs when instance.startup() is invoked on
\* i: a widget that is started already returns at once; otherwise it also
\* starts the widgets among its children that are neither started nor
\* destroyed; a plain component only runs its own hook
startupSet(i) ==
    IF IsWidget(i) /\ ~started[i]
    THEN {i} \cup {j \in Inst : /\ IsWidget(j)
                                /\ domNode[j] # Null
                                /\ domNode[j] \in Range(getChildren(childNodes, i))
                                /\ ~started[j]
                                /\ ~beingDestroyed[j]}
    ELSE {i}

\* --------------------------------------------- _UiComponent: placement
\* var referenceNode = this.containerNode || this.domNode
referenceNode(self) == IF containerNode[self] # Null THEN containerNode[self] ELSE domNode[self]

\* the branches of _attachUiComponent for a given reference node: a widget
\* goes through addChild of a container, else through placeAt when there is
\* a reference node; any other instance with a node is placed directly; the
\* target is this.domNode when the instance's node is the reference node
attachTarget(self, inst, reference) ==
    IF domNode[inst] = reference THEN domNode[self] ELSE reference

attachAt(cn, self, inst, position, reference) ==
    LET target == attachTarget(self, inst, reference)
        quiet == [threw |-> FALSE, cn |-> cn, startup |-> FALSE]
    IN IF IsWidget(inst)
       THEN IF IsContainer(self) THEN addChild(cn, self, inst, position)
            ELSE IF reference # Null
            THEN [quiet EXCEPT !.threw = placeAt(cn, inst, target, position).threw,
                               !.cn = placeAt(cn, inst, target, position).cn]
            ELSE quiet
       ELSE IF domNode[inst] # Null
       THEN [quiet EXCEPT !.threw = place(cn, domNode[inst], target, position).threw,
                          !.cn = place(cn, domNode[inst], target, position).cn]
       ELSE quiet

attachUiComponentAtRoot(cn, self, inst, position) ==
    attachAt(cn, self, inst, position,
             IF domNode[self] # Null THEN domNode[self] ELSE containerNode[self])

\* _attachUiComponent(instance, context, position) with this = self
attachUiComponent(cn, self, inst, position) ==
    attachAt(cn, self, inst, position, referenceNode(self))

\* instance.domNode.parentNode.removeChild(instance.domNode): without a
\* node, or with a node that has no parent, a TypeError
parentRemoveChild(cn, inst) ==
    IF domNode[inst] = Null \/ ParentIn(cn, domNode[inst]) = Null THEN Threw(cn)
    ELSE Ok(removeChild(cn, domNode[inst]))

detachUiComponentUnguarded(cn, self, inst) == parentRemoveChild(cn, inst)

\* _detachUiComponent(instance, context) with this = self
detachUiComponent(cn, self, inst) ==
    IF IsWidget(inst)
    THEN IF IsContainer(self) THEN Ok(containerRemoveChild(cn, inst))
         ELSE IF domNode[inst] # Null /\ ParentIn(cn, domNode[inst]) # Null
         THEN parentRemoveChild(cn, inst)
         ELSE Ok(cn)
    ELSE IF domNode[inst] # Null /\ ParentIn(cn, domNode[inst]) # Null
    THEN parentRemoveChild(cn, inst)
    ELSE Ok(cn)

\* new DomContentComponent(props, node) as instance i, around a node that
\* already exists
domContentComponent(i, node) ==
    /\ kind[i] = "none"
    /\ kind' = [kind EXCEPT ![i] = "dom"]
    /\ domNode' = [domNode EXCEPT ![i] = node]
    /\ last' = Call("construct", "", i, FALSE)
    /\ UNCHANGED <<source, containerNode, childNodes, element, created, lifeVars, countVars>>

\* _attachComponent(definition, instance, context, root, owner): the generic
\* bookkeeping, then the placement at definition.position
attachComponent(self, inst, position) ==
    LET r == attachUiComponent(childNodes, self, inst, position)
        run == IF r.startup THEN startupSet(inst) ELSE {}
    IN /\ kind[self] # "none" /\ kind[inst] # "none"
       /\ childNodes' = r.cn
       /\ started' = [j \in Inst |-> started[j] \/ j \in run]
       /\ startupCalls' = [j \in Inst |-> startupCalls[j] + (IF j \in run THEN 1 ELSE 0)]
       /\ last' = Call("attach", self, inst, r.threw)
       /\ UNCHANGED <<kind, source, domNode, containerNode, element, created,
                      beingDestroyed, startCalls, stopCalls, destroyCalls, appliedCalls>>

\* _detachComponent(instance, context, root, owner)
detachComponent(self, inst) ==
    /\ kind[self] # "none" /\ kind[inst] # "none"
    /\ childNodes' = detachUiComponent(childNodes, self, inst).cn
    /\ last' = Call("detach", self, inst, detachUiComponent(childNodes, self, inst).threw)
    /\ UNCHANGED <<kind, source, domNode, containerNode, element, created,
                   lifeVars, countVars>>

\* --------------------------------------------- _UiComponent: lifecycle
\* whether _startupChildComponent(instance) reaches instance.startup()
startsHook(i) == ~(IsWidget(i) /\ started[i])

\* _startupChildComponent(instance)
startupChildComponent(i) ==
    LET run == IF startsHook(i) THEN startupSet(i) ELSE {}
    IN /\ kind[i] # "none"
       /\ startCalls[i] < MaxCalls
       /\ startCalls' = [startCalls EXCEPT ![i] = @ + 1]
       /\ started' = [j \in Inst |-> started[j] \/ (j \in run /\ IsWidget(j))]
       /\ startupCalls' = [j \in Inst |-> startupCalls[j] + (IF j \in run THEN 1 ELSE 0)]
       /\ last' = Call("start", i, i, FALSE)
       /\ UNCHANGED <<domVars, beingDestroyed, stopCalls, destroyCalls, appliedCalls>>

\* whether _destroyChildComponent(instance) reaches instance.destroy()
destroysHook(i) == ~(IsWidget(i) /\ beingDestroyed[i])

\* what a destroy() leaves: the DOM, the instance's node and container node
Destroyed(cn, node, container) == [cn |-> cn, domNode |-> node, containerNode |-> container]

\* DomContentComponent.destroy(): a node that is set leaves its parent, if
\* it has one, and the reference is cleared; then the inherited destroy
domContentDestroyKeepsParent(cn, i) == Destroyed(cn, Null, containerNode[i])

domContentDestroy(cn, i) ==
    IF domNode[i] # Null
    THEN Destroyed(IF ParentIn(cn, domNode[i]) # Null THEN removeChild(cn, domNode[i]) ELSE cn,
                   Null, containerNode[i])
    ELSE Destroyed(cn, domNode[i], containerNode[i])

\* Control.destroy(): the inherited destroy, then the node leaves its parent,
\* if it has both, and node and container node are cleared
controlDestroy(cn, i) ==
    Destroyed(IF domNode[i] # Null /\ ParentIn(cn, domNode[i]) # Null
              THEN removeChild(cn, domNode[i]) ELSE cn,
              Null, Null)

\* dijit/_WidgetBase destroy(): destroyRendering takes the widget's node out
\* of the document and deletes the domNode reference
widgetDestroy(cn, i) ==
    IF domNode[i] # Null
    THEN Destroyed(removeChild(cn, domNode[i]), Null, containerNode[i])
    ELSE Destroyed(cn, domNode[i], containerNode[i])

\* instance.destroy() by the instance's class
destroy(cn, i) ==
    CASE kind[i] = "dom" -> domContentDestroy(cn, i)
      [] kind[i] = "control" -> controlDestroy(cn, i)
      [] OTHER -> widgetDestroy(cn, i)

\* _destroyChildComponent(instance)
destroyChildComponent(i) ==
    /\ kind[i] # "none"
    /\ stopCalls[i] < MaxCalls
    /\ stopCalls' = [stopCalls EXCEPT ![i] = @ + 1]
    /\ IF destroysHook(i)
       THEN /\ destroyCalls' = [destroyCalls EXCEPT ![i] = @ + 1]
            /\ beingDestroyed' = [beingDestroyed EXCEPT ![i] = @ \/ IsWidget(i)]
            /\ childNodes' = destroy(childNodes, i).cn
            /\ domNode' = [domNode EXCEPT ![i] = destroy(childNodes, i).domNode]
            /\ containerNode' = [containerNode EXCEPT ![i] = destroy(childNodes, i).containerNode]
       ELSE UNCHANGED <<destroyCalls, beingDestroyed, childNodes, domNode, containerNode>>
    /\ last' = Call("stop", i, i, FALSE)
    /\ UNCHANGED <<kind, source, element, created, started, startCalls, startupCalls,
                   appliedCalls>>

\* ----------------------------------------------------- dojo/dom-construct
\* domConstruct.create(tag, attrs): an element is created only for a tag
\* that is a string; attrs, when given, are set on whatever tag then is, and
\* setting one on no element is a TypeError; the result is that element, or
\* the tag as it was passed
create(tag, attrs) ==
    IF tag = ""
    THEN [threw |-> attrs = "some", made |-> FALSE, element |-> NoElement]
    ELSE [threw |-> FALSE, made |-> TRUE,
          element |-> Element(tag, IF attrs = "some" THEN "data-x" ELSE "", "")]

\* domConstruct.toDom(content), content a markup string or the markup a
\* content function returns
toDom(content) == [threw |-> FALSE, made |-> TRUE, element |-> Element("li", "", content)]

\* ------------------------------------------------------------- Control
\* the node a render() that has to create one produces
FreshNode == InnerNode + created + 1

\* the element Control.render() builds: the parsed content, else an element
\* of this.tag || 'div' with this.attrs
renderElement(c) ==
    IF source[c].content # "" THEN toDom(source[c].content).element
    ELSE create(IF source[c].tag # "" THEN source[c].tag ELSE "div", source[c].attrs).element

\* Control.render(): nothing when a node exists, else a new node that is
\* also the container node
renderAgain(c) ==
    [domNode |-> FreshNode, containerNode |-> FreshNode, created |-> created + 1,
     element |-> [element EXCEPT ![FreshNode] = renderElement(c)]]

render(c) ==
    IF domNode[c] # Null
    THEN [domNode |-> domNode[c], containerNode |-> containerNode[c], created |-> created,
          element |-> element]
    ELSE [domNode |-> FreshNode, containerNode |-> FreshNode, created |-> created + 1,
          element |-> [element EXCEPT ![FreshNode] = renderElement(c)]]

CanRender(c) == kind[c] = "control" /\ (domNode[c] # Null \/ created < MaxRender)

Render(c) ==
    /\ CanRender(c)
    /\ domNode' = [domNode EXCEPT ![c] = render(c).domNode]
    /\ containerNode' = [containerNode EXCEPT ![c] = render(c).containerNode]
    /\ created' = render(c).created
    /\ element' = render(c).element
    /\ last' = Call("render", c, c, FALSE)
    /\ UNCHANGED <<kind, source, childNodes, lifeVars, countVars>>

\* Control.onCreate(): the inherited hook, render(), then, with a node,
\* _applyAttributes(), which sets every constructor parameter again
OnCreate(c) ==
    /\ CanRender(c)
    /\ appliedCalls[c] < MaxCalls
    /\ domNode' = [domNode EXCEPT ![c] = render(c).domNode]
    /\ containerNode' = [containerNode EXCEPT ![c] = render(c).containerNode]
    /\ created' = render(c).created
    /\ element' = render(c).element
    /\ appliedCalls' = [appliedCalls EXCEPT ![c] = IF render(c).domNode # Null THEN @ + 1 ELSE @]
    /\ last' = Call("onCreate", c, c, FALSE)
    /\ UNCHANGED <<kind, source, childNodes, lifeVars,
                   startCalls, startupCalls, stopCalls, destroyCalls>>

RemoveClearsNode(c) ==
    /\ kind[c] = "control"
    /\ childNodes' = IF domNode[c] # Null /\ parentNode(domNode[c]) # Null
                     THEN removeChild(childNodes, domNode[c])
                     ELSE childNodes
    /\ domNode' = [domNode EXCEPT ![c] = Null]
    /\ last' = Call("remove", c, c, FALSE)
    /\ UNCHANGED <<kind, source, containerNode, element, created, lifeVars, countVars>>

\* Control.remove()
Remove(c) ==
    /\ kind[c] = "control"
    /\ childNodes' = IF domNode[c] # Null /\ parentNode(domNode[c]) # Null
                     THEN removeChild(childNodes, domNode[c])
                     ELSE childNodes
    /\ last' = Call("remove", c, c, FALSE)
    /\ UNCHANGED <<kind, source, domNode, containerNode, element, created,
                   lifeVars, countVars>>

\* ---------------------------------------------------------------- Pane
\* Pane.show(view, options) with this = self: view.placeAt(this.domNode);
\* the view is a widget or a Control, which both have placeAt
show(self, view) ==
    LET r == placeAt(childNodes, view, domNode[self], Undefined)
    IN /\ IsContainer(self)
       /\ kind[view] \in {"widget", "container", "control"}
       /\ childNodes' = r.cn
       /\ last' = Call("show", self, view, r.threw)
       /\ UNCHANGED <<kind, source, domNode, containerNode, element, created,
                      lifeVars, countVars>>

\* ------------------------------------------------- _UiComponent: factory
\* the node of a markup-only definition: the parsed content when content is
\* given, else create(definition.tag, definition.attrs)
markupNode(def) ==
    IF def.content # "" THEN toDom(def.content) ELSE create(def.tag, def.attrs)

\* _instantiateComponent(definition, root, owner) making instance i: a
\* definition with a type goes to the inherited, generic path; domOnly
\* other than false gives a DomContentComponent around the node built
\* here; domOnly === false gives a Control without a node
instantiateComponent(i, def) ==
    LET n == markupNode(def)
        made == IF def.type THEN "widget"
                ELSE IF def.domOnly # "false" THEN (IF n.threw THEN "none" ELSE "dom")
                ELSE "control"
        built == def.type \/ (made = "dom" /\ n.made)
    IN /\ kind[i] = "none"
       /\ kind' = [kind EXCEPT ![i] = made]
       /\ source' = [source EXCEPT ![i] = IF made = "none" THEN NoDef ELSE def]
       /\ domNode' = [domNode EXCEPT ![i] = IF built THEN StaticNode(i) ELSE Null]
       /\ element' = [element EXCEPT ![StaticNode(i)] =
                        IF def.type THEN Element("div", "", "")
                        ELSE IF built THEN n.element ELSE NoElement]
       /\ last' = [Call("instantiate", "", i, made = "none") EXCEPT !.def = def]
       /\ UNCHANGED <<containerNode, childNodes, created, lifeVars, countVars>>

\* -------------------------------------------------------- ErrorManager
Min(x, y) == IF x < y THEN x ELSE y
Max(x, y) == IF x > y THEN x ELSE y

\* Array.prototype.splice(index, amount) without insertions: a negative
\* index counts from the end, index and amount are clamped to the array
splice(s, index, amount) ==
    LET start == IF index < 0 THEN Max(Len(s) + index, 0) ELSE Min(index, Len(s))
        count == Min(Max(amount, 0), Len(s) - start)
    IN SubSeq(s, 1, start) \o SubSeq(s, start + count + 1, Len(s))

\* removeError(index, amount): errors.splice(index, amount || 1)
removeError(s, index, amount) == splice(s, index, IF amount = 0 THEN 1 ELSE amount)

checkCacheSizeRemovesOne(s) ==
    IF Len(s) > errorCacheSizeMax - 1 THEN removeError(s, errorCacheSizeMax - 1, 1) ELSE s

\* checkCacheSize()
checkCacheSize(s) ==
    LET errLength == Len(s)
        cacheSizeIndex == errorCacheSizeMax - 1
    IN IF errLength > cacheSizeIndex
       THEN removeError(s, cacheSizeIndex, errLength - cacheSizeIndex)
       ELSE s

\* addError(description, error): checkCacheSize(), errors.push(errorItem),
\* onErrorAdd(), save(); the new item is the next in sequence
addError ==
    /\ added < MaxAdded
    /\ errors' = Append(checkCacheSize(errors), added + 1)
    /\ added' = added + 1
    /\ last' = Call("addError", "", "", FALSE)
    /\ UNCHANGED <<domVars, lifeVars, countVars, positionOf, attachOrder, phase>>

\* the arguments of a call of removeError: an index from either end of the
\* log, and an amount, 0 standing for an amount not given
RemoveIndexes == {0 - 1, 0, errorCacheSizeMax - 1}
RemoveAmounts == {0, 1, 2}

\* a call of removeError(index, amount) on its own: the log is spliced,
\* nothing is added and nothing is saved
removeErrorCall(index, amount) ==
    /\ errors' = removeError(errors, index, amount)
    /\ last' = Call("removeError", "", "", FALSE)
    /\ UNCHANGED <<added, domVars, lifeVars, countVars, positionOf, attachOrder, phase>>

\* a call of checkCacheSize() on its own
checkCacheSizeCall ==
    /\ errors' = checkCacheSize(errors)
    /\ last' = Call("checkCacheSize", "", "", FALSE)
    /\ UNCHANGED <<added, domVars, lifeVars, countVars, positionOf, attachOrder, phase>>

\* ------------------------------------------------------ initial states
NoCalls == [i \in Inst |-> 0]
NoFlags == [i \in Inst |-> FALSE]
EmptyDom == [n \in Nodes |-> <<>>]

\* the classes a component that attaches children can have ("rendered" is a
\* Control whose creation hook has run) and the classes of a child
ParentClasses == {"container", "widget", "dom", "control", "rendered"}
ChildClasses == {"widget", "dom", "control", "rendered"}

ClassKind(k) == IF k = "rendered" THEN "control" ELSE k

\* a definition that instantiates to class k
ClassSource(k) ==
    CASE k \in {"container", "widget"} -> Def(TRUE, "unset", "", "", "unset")
      [] k = "dom" -> Def(FALSE, "unset", "div", "", "unset")
      [] k \in {"control", "rendered"} -> Def(FALSE, "false", "", "", "unset")
      [] OTHER -> NoDef

\* the node an instance of class k is constructed with: a Control has none
\* until it renders
BuiltNode(i, k) == IF k \in {"none", "control"} THEN Null ELSE StaticNode(i)

\* the instances as constructed: class[i] for each, the parent with a
\* distinct inner container node or not, nothing attached, nothing started
Built(class, inner) ==
    /\ kind = [i \in Inst |-> ClassKind(class[i])]
    /\ source = [i \in Inst |-> ClassSource(class[i])]
    /\ domNode = [i \in Inst |-> BuiltNode(i, class[i])]
    /\ containerNode = [i \in Inst |->
          IF i = "p" /\ inner THEN InnerNode
          ELSE IF class[i] \in {"container", "rendered"} THEN StaticNode(i)
          ELSE Null]
    /\ childNodes = IF inner THEN [EmptyDom EXCEPT ![StaticNode("p")] = <<InnerNode>>]
                    ELSE EmptyDom
    /\ element = [n \in Nodes |->
          IF (\E i \in Inst : BuiltNode(i, class[i]) = n) \/ (inner /\ n = InnerNode)
          THEN Element("div", "", "") ELSE NoElement]
    /\ created = 0
    /\ started = NoFlags
    /\ beingDestroyed = NoFlags
    /\ startCalls = NoCalls
    /\ startupCalls = NoCalls
    /\ stopCalls = NoCalls
    /\ destroyCalls = NoCalls
    /\ appliedCalls = NoCalls
    /\ last = Call("init", "", "", FALSE)

NoScenario ==
    /\ positionOf = [i \in Inst |-> Undefined]
    /\ attachOrder = <<>>
    /\ phase = [i \in Inst |-> "created"]
    /\ errors = <<>>
    /\ added = 0

\* ------------------------------------------------- free use of the API
\* one component "p" with one child "a", each of any class; every operation
\* on the child, the start of "p" itself, and show of the child in a "p"
\* that is a pane, may be called at any time
Init ==
    /\ \E kp \in ParentClasses, ka \in ChildClasses, inner \in BOOLEAN :
         /\ inner => kp \in {"container", "widget"}
         /\ Built([i \in Inst |-> IF i = "p" THEN kp ELSE IF i = "a" THEN ka ELSE "none"], inner)
    /\ NoScenario

Attach == (\E pos \in Positions : attachComponent("p", "a", pos)) /\ UNCHANGED scenarioVars
Detach == detachComponent("p", "a") /\ UNCHANGED scenarioVars
Start == startupChildComponent("a") /\ UNCHANGED scenarioVars
Stop == destroyChildComponent("a") /\ UNCHANGED scenarioVars
DoRender == Render("a") /\ UNCHANGED scenarioVars
DoOnCreate == OnCreate("a") /\ UNCHANGED scenarioVars
DoRemove == Remove("a") /\ UNCHANGED scenarioVars
StartOwner == startupChildComponent("p") /\ UNCHANGED scenarioVars
Show == show("p", "a") /\ UNCHANGED scenarioVars

Next ==
    Attach \/ Detach \/ Start \/ Stop \/ DoRender \/ DoOnCreate \/ DoRemove \/ StartOwner
    \/ Show

Spec == Init /\ [][Next]_vars

\* ------------------------------------------------- sibling order
\* "p" and three children with distinct numeric positions, each attached
\* once at its definition's position, in any call order
InitOrder ==
    /\ \E kp \in ParentClasses, inner \in BOOLEAN, kc \in [Children -> ChildClasses] :
         /\ inner => kp \in {"container", "widget"}
         /\ Built([i \in Inst |-> IF i = "p" THEN kp ELSE kc[i]], inner)
    /\ \E pos \in [Children -> 0 .. MaxPos] :
         /\ \A i, j \in Children : i # j => pos[i] # pos[j]
         /\ positionOf = [i \in Inst |-> IF i \in Children THEN pos[i] ELSE Undefined]
    /\ attachOrder = <<>>
    /\ phase = [i \in Inst |-> "created"]
    /\ errors = <<>>
    /\ added = 0

AttachSibling ==
    \E i \in Children :
        /\ i \notin Range(attachOrder)
        /\ attachComponent("p", i, positionOf[i])
        /\ attachOrder' = Append(attachOrder, i)
        /\ UNCHANGED <<positionOf, phase, logVars>>

NextOrder == AttachSibling

SpecOrder == InitOrder /\ [][NextOrder]_vars

\* ------------------------------------------------- factory
\* instance "a" is made from any definition; a Control is then rendered or
\* created
InitFactory ==
    /\ Built([i \in Inst |-> "none"], FALSE)
    /\ NoScenario

Instantiate == (\E def \in Definitions : instantiateComponent("a", def)) /\ UNCHANGED scenarioVars
CreateControl == OnCreate("a") /\ UNCHANGED scenarioVars
RenderControl == Render("a") /\ UNCHANGED scenarioVars

NextFactory == Instantiate \/ CreateControl \/ RenderControl

SpecFactory == InitFactory /\ [][NextFactory]_vars

\* ------------------------------------------------- lifecycle sweep
\* the owner's sweep over child "a" of component "p": attach, then start,
\* later detach and stop; a Control's creation hook and the owner's own
\* start may come at any point
SweepAttach ==
    /\ phase["a"] = "created"
    /\ \E pos \in Positions : attachComponent("p", "a", pos)
    /\ phase' = [phase EXCEPT !["a"] = "attached"]
    /\ UNCHANGED <<positionOf, attachOrder, logVars>>

SweepStart ==
    /\ phase["a"] = "attached"
    /\ startupChildComponent("a")
    /\ phase' = [phase EXCEPT !["a"] = "started"]
    /\ UNCHANGED <<positionOf, attachOrder, logVars>>

SweepDetach ==
    /\ phase["a"] = "started"
    /\ detachComponent("p", "a")
    /\ phase' = [phase EXCEPT !["a"] = "detached"]
    /\ UNCHANGED <<positionOf, attachOrder, logVars>>

SweepStop ==
    /\ phase["a"] \in {"started", "detached"}
    /\ destroyChildComponent("a")
    /\ phase' = [phase EXCEPT !["a"] = "stopped"]
    /\ UNCHANGED <<positionOf, attachOrder, logVars>>

SweepCreate == OnCreate("a") /\ UNCHANGED scenarioVars

SweepStartOwner == startupChildComponent("p") /\ UNCHANGED scenarioVars

NextSweep ==
    SweepAttach \/ SweepStart \/ SweepDetach \/ SweepStop \/ SweepCreate \/ SweepStartOwner

SpecSweep == Init /\ [][NextSweep]_vars

\* ------------------------------------------------- two parents
\* components "p" and "b", each of any class, and one instance "a" that
\* either of them attaches and detaches at any time; "a" is of any class, or
\* is constructed later as a DomContentComponent around a node of "p"
InitTree ==
    /\ \E kp \in ParentClasses, kb \in ParentClasses, ka \in ChildClasses \cup {"none"},
          inner \in BOOLEAN :
         /\ inner => kp \in {"container", "widget"}
         /\ Built([i \in Inst |-> CASE i = "p" -> kp [] i = "b" -> kb
                                      [] i = "a" -> ka [] OTHER -> "none"], inner)
    /\ NoScenario

TreeAttach ==
    /\ \E q \in {"p", "b"}, pos \in Positions : attachComponent(q, "a", pos)
    /\ UNCHANGED scenarioVars

TreeDetach ==
    /\ \E q \in {"p", "b"} : detachComponent(q, "a")
    /\ UNCHANGED scenarioVars

TreeWrap ==
    /\ \E n \in {domNode["p"], referenceNode("p")} \ {Null} : domContentComponent("a", n)
    /\ UNCHANGED scenarioVars

NextTree == TreeAttach \/ TreeDetach \/ TreeWrap

SpecTree == InitTree /\ [][NextTree]_vars

\* ------------------------------------------------- error log
\* the log as loaded from localStorage holds any number of items, also more
\* than errorCacheSizeMax; then errors are added, and removeError and
\* checkCacheSize are called, in any order
InitErrors ==
    /\ Built([i \in Inst |-> "none"], FALSE)
    /\ positionOf = [i \in Inst |-> Undefined]
    /\ attachOrder = <<>>
    /\ phase = [i \in Inst |-> "created"]
    /\ \E n \in 0 .. MaxLoaded :
         /\ errors = [k \in 1 .. n |-> k - n - 1]
         /\ added = 0

AddError == addError

RemoveError == \E index \in RemoveIndexes, amount \in RemoveAmounts : removeErrorCall(index, amount)

CheckCacheSize == checkCacheSizeCall

NextErrors == AddError \/ RemoveError \/ CheckCacheSize

SpecErrors == InitErrors /\ [][NextErrors]_vars

\* ------------------------------------------------------------- claims
\* C1: two calls of _startupChildComponent on one instance invoke that
\* instance's startup hook exactly once, whatever its class
C1_StartTwiceStartsOnce ==
    \A i \in Inst : startCalls[i] = 2 => startupCalls[i] = 1

\* C2: two calls of _destroyChildComponent on one instance invoke that
\* instance's destroy hook exactly once, whatever its class
C2_StopTwiceDestroysOnce ==
    \A i \in Inst : stopCalls[i] = 2 => destroyCalls[i] = 1

\* C3: a container with no children and three widget children whose
\* definitions carry positions 0, 1 and 2 ends, after the three attaches in
\* whatever call order, with the children in the order of their positions
C3_AnyCallOrderGivesPositionOrder ==
    ( /\ IsContainer("p")
      /\ \A i \in Children : IsWidget(i)
      /\ positionOf["a"] = 0 /\ positionOf["b"] = 1 /\ positionOf["c"] = 2
      /\ Len(attachOrder) = 3 )
    => childNodes[containerNode["p"]] = <<domNode["a"], domNode["b"], domNode["c"]>>

\* the attaches so far went in strictly ascending position
Ascending(order) ==
    \A k \in 1 .. (Len(order) - 1) : positionOf[order[k]] < positionOf[order[k + 1]]

\* the nodes of the instances of order that have one, in that order
RECURSIVE NodesOf(_)
NodesOf(order) ==
    IF order = <<>> THEN <<>>
    ELSE (IF domNode[Head(order)] # Null THEN <<domNode[Head(order)]>> ELSE <<>>)
         \o NodesOf(Tail(order))

\* C4: siblings attached to an empty parent in ascending position order
\* are the parent's children in that same order, under a container (addChild)
\* and under a parent that only has a node (place / placeAt)
C4_AscendingAttachKeepsOrder ==
    (referenceNode("p") # Null /\ Ascending(attachOrder))
    => childNodes[referenceNode("p")] = NodesOf(attachOrder)

\* C4 witness: three siblings, attached in ascending position order under a
\* parent that is no container, are all children of its reference node
C4_Witness ==
    /\ ~IsContainer("p") /\ referenceNode("p") # Null
    /\ Len(attachOrder) = 3 /\ Ascending(attachOrder)
    /\ Len(childNodes[referenceNode("p")]) = 3

\* C5: attaching a widget, or an instance that has a node, to a component
\* that is no container and has neither container node nor node raises no
\* error, leaves the child without a parent and changes no placement
C5_NoReferenceAttachIsSilent ==
    [][( /\ last'.op = "attach"
         /\ ~IsContainer(last'.self) /\ referenceNode(last'.self) = Null
         /\ (IsWidget(last'.inst) \/ domNode[last'.inst] # Null) )
       => ( /\ ~last'.threw
            /\ childNodes' = childNodes
            /\ ParentIn(childNodes', domNode[last'.inst]) = Null )]_vars

\* a definition without type, tag and content
Bare(def) == ~def.type /\ def.tag = "" /\ def.content = ""

\* C6: a definition without type, tag and content instantiates, and for a
\* Control is created, without error into an instance that holds a default
\* element, on the markup path and on the Control path, with or without attrs
C6_BareDefinitionGetsDefaultElement ==
    /\ (last.op = "instantiate" /\ Bare(last.def)) => ~last.threw
    /\ (last.op = "instantiate" /\ Bare(last.def) /\ last.def.domOnly # "false")
         => (kind[last.inst] = "dom" /\ domNode[last.inst] # Null
             /\ element[domNode[last.inst]].tag = "div")
    /\ (last.op = "onCreate" /\ Bare(source[last.inst]))
         => (~last.threw /\ domNode[last.inst] # Null
             /\ element[domNode[last.inst]].tag = "div")

\* C7: a Control that has a node keeps that very node through every call
\* other than destroy, and render() on a Control with a node changes nothing
C7_RenderKeepsNode ==
    [][\A c \in Inst :
         (kind[c] = "control" /\ domNode[c] # Null) =>
           /\ destroyCalls'[c] = destroyCalls[c] => domNode'[c] = domNode[c]
           /\ (last'.op = "render" /\ last'.inst = c) =>
                UNCHANGED <<domVars, lifeVars, countVars>>]_vars

\* C7 witness: render() was just called on a Control that already had a node
C7_Witness ==
    \E c \in Inst : /\ kind[c] = "control"
                    /\ last.op = "render" /\ last.inst = c
                    /\ last.node # Null /\ domNode[c] = last.node

\* C8: once destroy() has run on a Control, its node and container node are
\* cleared in every later state
C8_DestroyedStaysCleared ==
    \A c \in Inst :
        (kind[c] = "control" /\ destroyCalls[c] >= 1) =>
            (domNode[c] = Null /\ containerNode[c] = Null)

\* C9: when _startupChildComponent invokes an instance's startup hook, the
\* instance is attached: its node has a parent
C9_StartOnlyWhenAttached ==
    [][( /\ last'.op = "start" /\ last'.inst = "a"
         /\ startupCalls'["a"] > startupCalls["a"] )
       => (domNode["a"] # Null /\ parentNode(domNode["a"]) # Null)]_vars

\* C10: after stop on a DomContentComponent, attached or not at the time,
\* the node it wrapped has no parent and its node reference is cleared
C10_StopClearsDomOnlyNode ==
    \A i \in Inst :
        (kind[i] = "dom" /\ stopCalls[i] >= 1) =>
            (domNode[i] = Null /\ parentNode(StaticNode(i)) = Null)

\* C10 witness: stop was just called on a DomContentComponent whose node was
\* still attached to the parent
C10_Witness ==
    \E i \in Inst : /\ kind[i] = "dom"
                    /\ last.op = "stop" /\ last.inst = i
                    /\ last.node = StaticNode(i) /\ last.parent # Null
                    /\ domNode[i] = Null

\* C11: the DOM's parent / child lists change only in calls of
\* _attachComponent and _detachComponent: no start, no stop (destroy), no
\* Control.remove, no render or creation and no Pane.show changes a placement
C11_OnlyAttachDetachMovePlacement ==
    [][last'.op \notin {"attach", "detach"} => childNodes' = childNodes]_vars

\* C13: over any sequence of onCreate calls on a Control, its node is
\* rendered once and the constructor's attribute assignments are applied to
\* the node exactly once, by the call that rendered it
C13_CreateAppliesAttributesOnce ==
    \A c \in Inst :
        (kind[c] = "control" /\ last.op = "onCreate" /\ last.inst = c) =>
            (domNode[c] # Null /\ created = 1 /\ appliedCalls[c] = 1)

\* C14: _instantiateComponent picks the class from the definition alone: a
\* type goes to the inherited path; otherwise domOnly other than false gives
\* a DomContentComponent that holds its node already (the parsed content if
\* content is given, else an element of the definition's tag with its
\* attrs); otherwise a Control without a node, which it has after render()
\* or onCreate()
C14_DefinitionSelectsClass ==
    /\ (last.op = "instantiate" /\ last.def.type) => kind[last.inst] = "widget"
    /\ (last.op = "instantiate" /\ ~last.def.type /\ last.def.domOnly # "false") =>
         /\ ~last.threw
         /\ kind[last.inst] = "dom"
         /\ domNode[last.inst] # Null
         /\ element[domNode[last.inst]] =
               IF last.def.content # "" THEN Element("li", "", last.def.content)
               ELSE Element(last.def.tag,
                            IF last.def.attrs = "some" THEN "data-x" ELSE "", "")
    /\ (last.op = "instantiate" /\ ~last.def.type /\ last.def.domOnly = "false") =>
         (kind[last.inst] = "control" /\ domNode[last.inst] = Null)
    /\ (last.op \in {"render", "onCreate"} /\ kind[last.inst] = "control") =>
         domNode[last.inst] # Null

\* C15: once an addError has completed, whatever log was loaded and however
\* many errors were added, the log holds at most errorCacheSizeMax items
C15_CacheSizeBounded ==
    last.op = "addError" => Len(errors) <= errorCacheSizeMax

\* C15 witness: an addError has completed on a loaded log that held more
\* than errorCacheSizeMax items, and the log now holds errorCacheSizeMax
C15_Witness ==
    /\ last.op = "addError"
    /\ MaxLoaded > errorCacheSizeMax
    /\ errors[1] = 0 - MaxLoaded
    /\ Len(errors) = errorCacheSizeMax

\* the last n items of s
LastN(s, n) == SubSeq(s, Len(s) - Min(Len(s), n) + 1, Len(s))

\* C16: the log is a ring buffer: an addError on a full log evicts the
\* oldest items, so that the log then holds the errorCacheSizeMax most
\* recent items, the new one last, in insertion order
C16_KeepsMostRecent ==
    [][last'.op = "addError" =>
         errors' = LastN(Append(errors, added'), errorCacheSizeMax)]_vars

\* whether _attachUiComponent hands the instance's node to a placement
\* (addChild, placeAt or domConstruct.place), and the node it hands over as
\* the target of that placement
AttachPlaces(self, inst) ==
    IF IsWidget(inst) THEN IsContainer(self) \/ referenceNode(self) # Null
    ELSE domNode[inst] # Null

AttachTargetOf(self, inst) ==
    IF IsWidget(inst) /\ IsContainer(self) THEN containerNode[self]
    ELSE attachTarget(self, inst, referenceNode(self))

\* C17: whenever an attach places the instance's node, for a parent with or
\* without a container node of its own and a widget or node-only child, also
\* a child whose node is the parent's reference node, the target of the
\* placement is another node than the instance's node
C17_TargetIsNotOwnNode ==
    [][(last'.op = "attach" /\ AttachPlaces(last'.self, last'.inst))
       => AttachTargetOf(last'.self, last'.inst) # domNode[last'.inst]]_vars

\* C18: Control.remove() takes the Control's node out of its parent and
\* changes nothing else: node and container-node reference, every other
\* field and every other node's placement stay, and without a node or
\* without a parent nothing changes at all; an attach that follows places
\* that same node under the parent's reference node
C18_RemoveOnlyDetachesNode ==
    [][/\ \A c \in Inst :
            (last'.op = "remove" /\ last'.inst = c) =>
              /\ ~last'.threw
              /\ UNCHANGED <<kind, source, domNode, containerNode, element, created,
                             lifeVars, countVars>>
              /\ domNode[c] # Null => ParentIn(childNodes', domNode[c]) = Null
              /\ \A n \in Nodes \ {domNode[c]} :
                     ParentIn(childNodes', n) = ParentIn(childNodes, n)
              /\ \A m \in Nodes :
                     childNodes'[m] = SelectSeq(childNodes[m], LAMBDA x : x # domNode[c])
              /\ (domNode[c] = Null \/ parentNode(domNode[c]) = Null) =>
                     childNodes' = childNodes
       /\ ( /\ last.op = "remove" /\ last'.op = "attach" /\ last'.inst = last.inst
            /\ last.node # Null /\ referenceNode(last'.self) # Null )
          => ( /\ ~last'.threw
               /\ domNode'[last.inst] = last.node
               /\ ParentIn(childNodes', last.node) = referenceNode(last'.self) )]_vars

\* C18 witness: remove() was just called on a Control whose node had a
\* parent; the Control still holds the node, and the node has no parent
C18_Witness ==
    /\ last.op = "remove" /\ kind[last.inst] = "control"
    /\ last.node # Null /\ last.parent # Null
    /\ domNode[last.inst] = last.node
    /\ parentNode(last.node) = Null

\* C19: detach of an instance whose node has no parent (or that has no
\* node), and stop of a DomContentComponent or Control that is not attached,
\* a Control that never rendered included, raise no error and leave every
\* node's placement as it was
C19_UnattachedDetachAndStopAreSafe ==
    [][\A i \in Inst :
         ( /\ last'.inst = i
           /\ domNode[i] = Null \/ parentNode(domNode[i]) = Null
           /\ \/ last'.op = "detach"
              \/ last'.op = "stop" /\ kind[i] \in {"dom", "control"} )
         => (~last'.threw /\ childNodes' = childNodes)]_vars

\* C19 witness: detach was just called on an instance whose node had no
\* parent, and raised nothing
C19_Witness ==
    /\ last.op = "detach" /\ ~last.threw
    /\ last.node # Null /\ last.parent = Null

\* C20: a detach of an instance through a component other than the one whose
\* node it is a child of changes no placement: the instance stays a child of
\* that other component, whose child order stays as it was
C20_DetachTouchesOnlyOwnChildren ==
    [][\A self \in Inst, q \in Inst, i \in Inst :
         ( /\ last'.op = "detach" /\ last'.self = self /\ last'.inst = i
           /\ q # self /\ kind[q] # "none"
           /\ domNode[i] # Null
           /\ referenceNode(q) # Null
           /\ parentNode(domNode[i]) = referenceNode(q) )
         => ( /\ childNodes' = childNodes
              /\ ParentIn(childNodes', domNode[i]) = referenceNode(q) )]_vars

====
